---- MODULE Spec2Model ----
(***************************************************************************)
(* A model of src/app.py: a Streamlit page that loads one or two CSV       *)
(* files, filters each by one column, optionally shows raw data, dtypes    *)
(* and a side-by-side comparison, and renders one chart.                   *)
(*                                                                         *)
(* Streamlit executes main() from the top on every upload or interaction.  *)
(* One run of main() is modelled as a chain of steps (pc); the only state  *)
(* that survives a run is st.session_state (file_loaded, file_name) and    *)
(* the content of the uploader widget (files).                             *)
(*                                                                         *)
(* A table keeps its column names as a set and its rows as a sequence of   *)
(* functions from column name to value: no claim depends on the order of   *)
(* the columns, and list(set(...)) at line 46 fixes none.                  *)
(*                                                                         *)
(* Library calls are modelled by their contract: st.selectbox returns one  *)
(* of the options it is given in the same run, st.multiselect a subset of  *)
(* them, st.checkbox a boolean, and pd.read_csv either the file's table or *)
(* an exception. The chart renderers only record their call.               *)
(***************************************************************************)
EXTENDS Integers, Sequences, FiniteSets, TLC

\* ------------------------------------------------------------- bounds
MaxRows == 3
MaxReruns == 1
MaxUpload == 3

Values == {1, 2, 3}

\* ------------------------------------------------------------- values
None == [kind |-> "None"]
Unbound == [kind |-> "Unbound"]
Malformed == [kind |-> "Malformed"]
UnboundName == "<unbound>"

DataFrame(cols, rows) == [kind |-> "DataFrame", columns |-> cols, rows |-> rows]

IsDataFrame(df) == df.kind = "DataFrame"

\* Sequences over S of length at most n.
SeqsUpTo(S, n) == UNION {[1..k -> S] : k \in 0..n}

\* The tables pd.read_csv can return over one set of column names.
TablesOver(cols) == {DataFrame(cols, rows) : rows \in SeqsUpTo([cols -> Values], MaxRows)}

\* ------------------------------------------------------- uploaded files
T_abc == DataFrame({"A", "B", "C"},
                   << [A |-> 1, B |-> 1, C |-> 1], [A |-> 2, B |-> 1, C |-> 1] >>)
T_bcd == DataFrame({"B", "C", "D"},
                   << [B |-> 2, C |-> 1, D |-> 1], [B |-> 1, C |-> 2, D |-> 2] >>)
T_e == DataFrame({"E"}, << [E |-> 1] >>)

UploadedFile(name, content) == [name |-> name, content |-> content]

SessionFiles ==
    { UploadedFile("abc.csv", T_abc), UploadedFile("bcd.csv", T_bcd),
      UploadedFile("e.csv", T_e), UploadedFile("bad.csv", Malformed) }

Uploads == SeqsUpTo(SessionFiles, MaxUpload)

\* ------------------------------------------------------------- state
VARIABLES
    files,            \* what st.file_uploader returns (line 89)
    file_loaded,      \* st.session_state.file_loaded
    file_name,        \* st.session_state.file_name
    pc,               \* position of the current run in main()
    trigger,          \* what started the current run: "upload" | "interaction"
    df1, df2, file_names,
    filter_column1, filter_values1, df1_filtered,
    filter_column2, filter_values2, df2_filtered,
    start_comparison,
    chart_type, x_col, y_col, col,
    messages,         \* st.warning / st.error / st.success / st.write(text) of this run
    shown,            \* tables written to the page in this run
    charts,           \* chart renderer calls of this run
    widgets,          \* sidebar and page controls created in this run
    exception,        \* the uncaught exception that ended the run, or "None"
    parseCount,       \* per uploaded file: pd.read_csv calls since it was uploaded
    reruns,           \* reruns since the last upload
    loaded_at_start,  \* history: file_loaded when the current run started
    columns_replaced  \* history: the last upload replaced the first table by one
                      \* with other columns

session == <<files, file_loaded, file_name, parseCount, reruns, loaded_at_start,
             columns_replaced>>
loads == <<df1, df2, file_names>>
filter1 == <<filter_column1, filter_values1, df1_filtered>>
filter2 == <<filter_column2, filter_values2, df2_filtered>>
chartsel == <<chart_type, x_col, y_col, col>>
page == <<messages, shown, charts, widgets>>

vars == <<files, file_loaded, file_name, pc, trigger, df1, df2, file_names,
          filter_column1, filter_values1, df1_filtered,
          filter_column2, filter_values2, df2_filtered, start_comparison,
          chart_type, x_col, y_col, col, messages, shown, charts, widgets,
          exception, parseCount, reruns, loaded_at_start, columns_replaced>>

Msg(level, text, file) == [level |-> level, text |-> text, file |-> file]

\* A fresh frame of main() and an empty page.
FreshRun ==
    /\ df1 = Unbound /\ df2 = Unbound /\ file_names = <<>>
    /\ filter_column1 = UnboundName /\ filter_values1 = {} /\ df1_filtered = Unbound
    /\ filter_column2 = UnboundName /\ filter_values2 = {} /\ df2_filtered = Unbound
    /\ start_comparison = FALSE
    /\ chart_type = UnboundName /\ x_col = UnboundName
    /\ y_col = UnboundName /\ col = UnboundName
    /\ messages = <<>> /\ shown = <<>> /\ charts = <<>> /\ widgets = {}
    /\ exception = "None"

Init ==
    /\ files = <<>>
    /\ file_loaded = FALSE
    /\ file_name = UnboundName
    /\ pc = "main"
    /\ trigger = "upload"
    /\ parseCount = <<>>
    /\ reruns = 0
    /\ loaded_at_start = FALSE
    /\ columns_replaced = FALSE
    /\ FreshRun

\* ------------------------------------------------ library and helpers
\* pd.read_csv(file) at line 11: the parsed table, or an exception.
read_csv_ok(file) == file.content.kind = "DataFrame"

\* df[column].unique() at line 34.
unique_values(df, column) == {df.rows[i][column] : i \in 1..Len(df.rows)}

\* A variant of isin_rows that compares with one selected value only.
isin_rows_first(df, column, filter_values) ==
    LET v == CHOOSE w \in filter_values : \A u \in filter_values : w <= u
        keep(r) == r[column] = v
    IN DataFrame(df.columns, SelectSeq(df.rows, keep))

\* df[df[column].isin(filter_values)] at line 37.
isin_rows(df, column, filter_values) ==
    LET keep(r) == r[column] \in filter_values
    IN DataFrame(df.columns, SelectSeq(df.rows, keep))

\* filter_data (lines 33-39), as a function of the multiselect's value.
filter_data(df, column, filter_values) ==
    IF filter_values # {} THEN isin_rows(df, column, filter_values) ELSE df

\* list(set(df1.columns).intersection(set(df2.columns))) at line 46.
common_columns(d1, d2) == d1.columns \cap d2.columns

\* df[common_columns] at lines 55 and 58.
Project(df, cols) ==
    DataFrame(cols, [i \in 1..Len(df.rows) |-> [c \in cols |-> df.rows[i][c]]])

NoCommonColumns == Msg("warning", "The two files do not have any common columns to compare.", "")

\* A variant of compare_dataframes that writes the first table twice.
compare_dataframes_same(d1, d2) ==
    LET common == common_columns(d1, d2)
        head == << Msg("subheader", "Comparison of the Two Files", "") >>
    IN IF common = {}
       THEN [messages |-> head \o << NoCommonColumns >>, shown |-> <<>>]
       ELSE [messages |-> head \o << Msg("write", "File 1:", ""), Msg("write", "File 2:", "") >>,
             shown |-> << [what |-> "compare1", df |-> Project(d1, common)],
                          [what |-> "compare2", df |-> Project(d1, common)] >>]

\* A variant of compare_dataframes whose warning branch does not return.
compare_dataframes_noreturn(d1, d2) ==
    LET common == common_columns(d1, d2)
        head == << Msg("subheader", "Comparison of the Two Files", "") >>
        warn == IF common = {} THEN << NoCommonColumns >> ELSE <<>>
    IN [messages |-> head \o warn \o << Msg("write", "File 1:", ""), Msg("write", "File 2:", "") >>,
        shown |-> << [what |-> "compare1", df |-> Project(d1, common)],
                     [what |-> "compare2", df |-> Project(d2, common)] >>]

\* compare_dataframes (lines 42-58): what it adds to the page.
compare_dataframes(d1, d2) ==
    LET common == common_columns(d1, d2)
        head == << Msg("subheader", "Comparison of the Two Files", "") >>
    IN IF common = {}
       THEN [messages |-> head \o << NoCommonColumns >>, shown |-> <<>>]
       ELSE [messages |-> head \o << Msg("write", "File 1:", ""), Msg("write", "File 2:", "") >>,
             shown |-> << [what |-> "compare1", df |-> Project(d1, common)],
                          [what |-> "compare2", df |-> Project(d2, common)] >>]

\* A variant of UploadBranch that takes the first two of any longer upload.
UploadBranchAtLeastTwo(n) == IF n = 1 THEN "one" ELSE IF n >= 2 THEN "two" ELSE "reject"

\* The if / elif / else over len(files) at lines 94-106.
UploadBranch(n) == IF n = 1 THEN "one" ELSE IF n = 2 THEN "two" ELSE "reject"

\* A variant of PlaceholderNeeded that ignores the flag.
PlaceholderAlways == TRUE

\* not st.session_state.get("file_loaded", False) at line 182.
PlaceholderNeeded == ~file_loaded

\* A variant of CountParse for a load_data that parses a file once and caches it.
CountParseCached(i) == IF parseCount[i] > 0 THEN parseCount ELSE [parseCount EXCEPT ![i] = @ + 1]

\* The call of pd.read_csv on uploaded file i (line 11, from lines 96, 101, 102).
CountParse(i) == [parseCount EXCEPT ![i] = @ + 1]

\* A variant of ChartColumnOptions that offers the columns of both tables.
ChartColumnOptionsBoth ==
    IF IsDataFrame(df2) THEN df1.columns \cup df2.columns ELSE df1.columns

\* columns = df1.columns.tolist() at line 156.
ChartColumnOptions == df1.columns

ChartTypes == {"Bar", "Line", "Pie", "Scatter", "Histogram"}
TwoColumnCharts == {"Bar", "Line", "Scatter"}

Placeholder == Msg("write", "Please upload one or two CSV files to start.", "")
TooManyWarning == Msg("warning", "Please upload one or two CSV files.", "")
LoadSuccess(f) == Msg("success", "loaded successfully!", f.name)
LoadError(f) == Msg("error", "Failed to load the file", f.name)

\* ------------------------------------------------------------- actions
\* load_data(file) (lines 7-20) called on uploaded file i.
load_data(i) ==
    LET f == files[i]
    IN /\ parseCount' = CountParse(i)
       /\ IF read_csv_ok(f)
          THEN /\ file_loaded' = TRUE
               /\ file_name' = f.name
               /\ messages' = Append(messages, LoadSuccess(f))
          ELSE /\ file_loaded' = FALSE
               /\ file_name' = file_name
               /\ messages' = Append(messages, LoadError(f))

load_data_result(i) == IF read_csv_ok(files[i]) THEN files[i].content ELSE None

\* The else branch of `if files:` (lines 181-185).
NoFiles ==
    /\ pc = "main"
    /\ files = <<>>
    /\ messages' = IF PlaceholderNeeded THEN Append(messages, Placeholder) ELSE messages
    /\ pc' = "done"
    /\ UNCHANGED <<session, trigger, loads, filter1, filter2, start_comparison, chartsel,
                   shown, charts, widgets, exception>>

\* More than two files (lines 104-106).
TooManyFiles ==
    /\ pc = "main"
    /\ files # <<>>
    /\ UploadBranch(Len(files)) = "reject"
    /\ messages' = Append(messages, TooManyWarning)
    /\ pc' = "done"
    /\ UNCHANGED <<session, trigger, loads, filter1, filter2, start_comparison, chartsel,
                   shown, charts, widgets, exception>>

\* Lines 94-98 (one file) and 99-101 (the first of two files).
Load1 ==
    /\ pc = "main"
    /\ files # <<>>
    /\ UploadBranch(Len(files)) \in {"one", "two"}
    /\ load_data(1)
    /\ df1' = load_data_result(1)
    /\ IF UploadBranch(Len(files)) = "one"
       THEN /\ df2' = None
            /\ file_names' = << files[1].name >>
            /\ pc' = "filter1"
       ELSE /\ UNCHANGED <<df2, file_names>>
            /\ pc' = "load2"
    /\ UNCHANGED <<files, reruns, loaded_at_start, columns_replaced, trigger, filter1, filter2, start_comparison, chartsel,
                   shown, charts, widgets, exception>>

\* Lines 102-103.
Load2 ==
    /\ pc = "load2"
    /\ load_data(2)
    /\ df2' = load_data_result(2)
    /\ file_names' = << files[1].name, files[2].name >>
    /\ pc' = "filter1"
    /\ UNCHANGED <<files, reruns, loaded_at_start, columns_replaced, trigger, df1, filter1, filter2, start_comparison, chartsel,
                   shown, charts, widgets, exception>>

\* Lines 109-113. df1.columns on None raises AttributeError, which nothing catches.
SelectFilter1 ==
    /\ pc = "filter1"
    /\ \/ /\ ~IsDataFrame(df1)
          /\ exception' = "AttributeError"
          /\ pc' = "done"
          /\ UNCHANGED <<filter1, widgets>>
       \/ /\ IsDataFrame(df1)
          /\ \E c \in df1.columns : \E sel \in SUBSET unique_values(df1, c) :
                /\ filter_column1' = c
                /\ filter_values1' = sel
                /\ df1_filtered' = filter_data(df1, c, sel)
          /\ widgets' = widgets \cup {"filter_column1", "filter_values1"}
          /\ pc' = "filter2"
          /\ UNCHANGED exception
    /\ UNCHANGED <<session, trigger, loads, filter2, start_comparison, chartsel,
                   messages, shown, charts>>

\* Lines 115-117.
SelectFilter2 ==
    /\ pc = "filter2"
    /\ \/ /\ df2 # None
          /\ \E c \in df2.columns : \E sel \in SUBSET unique_values(df2, c) :
                /\ filter_column2' = c
                /\ filter_values2' = sel
                /\ df2_filtered' = filter_data(df2, c, sel)
          /\ widgets' = widgets \cup {"filter_column2", "filter_values2"}
       \/ /\ df2 = None
          /\ UNCHANGED <<filter2, widgets>>
    /\ pc' = "display"
    /\ UNCHANGED <<session, trigger, loads, filter1, start_comparison, chartsel,
                   messages, shown, charts, exception>>

\* The table a radio choice selects (lines 127-130, 138-141): choice r names
\* file_names[r], and the first name equal to it decides.
RadioTable(r) ==
    IF file_names[r] = file_names[1] THEN df1_filtered ELSE df2_filtered

\* Lines 120-143.
Display ==
    /\ pc = "display"
    /\ \E show_raw_data \in BOOLEAN, show_data_types \in BOOLEAN :
       \E raw_data_file \in 1..Len(file_names), data_types_file \in 1..Len(file_names) :
          /\ ~show_raw_data => raw_data_file = 1
          /\ ~show_data_types => data_types_file = 1
          /\ shown' = shown
                \o (IF show_raw_data
                    THEN << [what |-> "raw",
                             df |-> IF df2 # None THEN RadioTable(raw_data_file)
                                    ELSE df1_filtered] >>
                    ELSE <<>>)
                \o (IF show_data_types
                    THEN << [what |-> "dtypes",
                             df |-> IF df2 # None THEN RadioTable(data_types_file)
                                    ELSE df1_filtered] >>
                    ELSE <<>>)
          /\ widgets' = widgets \cup {"show_raw_data", "show_data_types"}
                \cup (IF show_raw_data /\ df2 # None THEN {"raw_data_file"} ELSE {})
                \cup (IF show_data_types /\ df2 # None THEN {"data_types_file"} ELSE {})
    /\ pc' = "compare"
    /\ UNCHANGED <<session, trigger, loads, filter1, filter2, start_comparison, chartsel,
                   messages, charts, exception>>

\* Lines 146-149.
Compare ==
    /\ pc = "compare"
    /\ \/ /\ df2 # None
          /\ \E checked \in BOOLEAN :
                /\ start_comparison' = checked
                /\ LET r == compare_dataframes(df1_filtered, df2_filtered)
                   IN /\ messages' = IF checked THEN messages \o r.messages ELSE messages
                      /\ shown' = IF checked THEN shown \o r.shown ELSE shown
          /\ widgets' = widgets \cup {"start_comparison"}
       \/ /\ df2 = None
          /\ UNCHANGED <<start_comparison, messages, shown, widgets>>
    /\ pc' = "chartselect"
    /\ UNCHANGED <<session, trigger, loads, filter1, filter2, chartsel, charts, exception>>

\* Lines 152-167.
ChartSelect ==
    /\ pc = "chartselect"
    /\ \E t \in ChartTypes :
          /\ chart_type' = t
          /\ IF t \in TwoColumnCharts
             THEN /\ \E x \in ChartColumnOptions, y \in ChartColumnOptions :
                        x_col' = x /\ y_col' = y
                  /\ col' = col
                  /\ widgets' = widgets \cup {"chart_type", "x_col", "y_col"}
             ELSE /\ \E c \in ChartColumnOptions : col' = c
                  /\ UNCHANGED <<x_col, y_col>>
                  /\ widgets' = widgets \cup {"chart_type", "col"}
    /\ pc' = "render"
    /\ UNCHANGED <<session, trigger, loads, filter1, filter2, start_comparison,
                   messages, shown, charts, exception>>

Renderer(t) ==
    CASE t = "Bar" -> "bar_chart"
      [] t = "Line" -> "line_chart"
      [] t = "Pie" -> "pie_chart"
      [] t = "Scatter" -> "scatter_chart"
      [] t = "Histogram" -> "histogram"

\* The arguments the if / elif chain at lines 170-179 reads for chart kind t.
RenderArgs(t) == IF t \in TwoColumnCharts THEN <<x_col, y_col>> ELSE <<col>>

\* Lines 169-179. Reading a local that was never assigned raises UnboundLocalError.
Render ==
    /\ pc = "render"
    /\ IF \E k \in 1..Len(RenderArgs(chart_type)) : RenderArgs(chart_type)[k] = UnboundName
       THEN /\ exception' = "UnboundLocalError"
            /\ UNCHANGED charts
       ELSE /\ charts' = Append(charts, [renderer |-> Renderer(chart_type),
                                         df |-> df1_filtered,
                                         args |-> RenderArgs(chart_type)])
            /\ UNCHANGED exception
    /\ pc' = "done"
    /\ UNCHANGED <<session, trigger, loads, filter1, filter2, start_comparison, chartsel,
                   messages, shown, widgets>>

\* The run is over; an upload or any other interaction starts the next one with a
\* fresh frame of main() and an empty page. Only session state is retained.
Rerun ==
    /\ pc = "done"
    /\ \E tr \in {"upload", "interaction"} :
          /\ tr = "interaction" => reruns < MaxReruns
          /\ trigger' = tr
    /\ pc' = "uploader"
    /\ df1' = Unbound /\ df2' = Unbound /\ file_names' = <<>>
    /\ filter_column1' = UnboundName /\ filter_values1' = {} /\ df1_filtered' = Unbound
    /\ filter_column2' = UnboundName /\ filter_values2' = {} /\ df2_filtered' = Unbound
    /\ start_comparison' = FALSE
    /\ chart_type' = UnboundName /\ x_col' = UnboundName
    /\ y_col' = UnboundName /\ col' = UnboundName
    /\ messages' = <<>> /\ shown' = <<>> /\ charts' = <<>> /\ widgets' = {}
    /\ exception' = "None"
    /\ loaded_at_start' = file_loaded
    /\ UNCHANGED <<files, file_loaded, file_name, parseCount, reruns, columns_replaced>>

\* Both uploads start with a well-formed file, and the two tables' columns differ.
OtherColumns(old, new) ==
    /\ old # <<>> /\ new # <<>>
    /\ read_csv_ok(old[1]) /\ read_csv_ok(new[1])
    /\ old[1].content.columns # new[1].content.columns

\* files = st.file_uploader(...) at line 89: a new list of files after an upload,
\* the same list after any other interaction.
FileUploader ==
    /\ pc = "uploader"
    /\ \/ /\ trigger = "upload"
          /\ \E fs \in Uploads :
                /\ files' = fs
                /\ parseCount' = [i \in 1..Len(fs) |-> 0]
                /\ columns_replaced' = OtherColumns(files, fs)
          /\ reruns' = 0
       \/ /\ trigger = "interaction"
          /\ reruns' = reruns + 1
          /\ UNCHANGED <<files, parseCount, columns_replaced>>
    /\ pc' = "main"
    /\ UNCHANGED <<file_loaded, file_name, loaded_at_start, trigger, loads, filter1, filter2,
                   start_comparison, chartsel, page, exception>>

Next ==
    \/ FileUploader
    \/ NoFiles
    \/ TooManyFiles
    \/ Load1
    \/ Load2
    \/ SelectFilter1
    \/ SelectFilter2
    \/ Display
    \/ Compare
    \/ ChartSelect
    \/ Render
    \/ Rerun

Spec == Init /\ [][Next]_vars

\* ----------------------------------------- filter_data on every small table
\* One file has just been uploaded: any table of at most MaxRows rows over
\* columns A, B or over column D, or a file pd.read_csv rejects.
FilterContents == TablesOver({"A", "B"}) \cup TablesOver({"D"}) \cup {Malformed}

InitFilter ==
    /\ \E content \in FilterContents : files = << UploadedFile("data.csv", content) >>
    /\ file_loaded = FALSE
    /\ file_name = UnboundName
    /\ pc = "main"
    /\ trigger = "upload"
    /\ parseCount = << 0 >>
    /\ reruns = 0
    /\ loaded_at_start = FALSE
    /\ columns_replaced = FALSE
    /\ FreshRun

NextFilter ==
    \/ Load1
    \/ SelectFilter1

SpecFilter == InitFilter /\ [][NextFilter]_vars

\* ------------------------------------------------------------- claims
ParseFailed == \E k \in 1..Len(messages) : messages[k].level = "error"
LoadSucceeded == \E k \in 1..Len(messages) : messages[k].level = "success"
Shows(m) == \E k \in 1..Len(messages) : messages[k] = m
IsCompareEntry(e) == e.what \in {"compare1", "compare2"}
CompareShown == SelectSeq(shown, IsCompareEntry)

\* The row indexes of df whose value in column is selected, and the j-th of them.
KeptIndexes(df, column, sel) == {i \in 1..Len(df.rows) : df.rows[i][column] \in sel}
NthKept(S, j) == CHOOSE i \in S : Cardinality({k \in S : k <= i}) = j

\* C1: filter_data returns the table unchanged when nothing is selected, and
\* otherwise exactly the rows whose value in the chosen column is selected, in
\* their order, none added and none missing.
C1_FilterExact ==
    df1_filtered # Unbound =>
        /\ filter_values1 = {} => df1_filtered = df1
        /\ filter_values1 # {} =>
              LET kept == KeptIndexes(df1, filter_column1, filter_values1)
              IN /\ df1_filtered.columns = df1.columns
                 /\ Len(df1_filtered.rows) = Cardinality(kept)
                 /\ \A j \in 1..Len(df1_filtered.rows) :
                        df1_filtered.rows[j] = df1.rows[NthKept(kept, j)]

C1_Witness ==
    /\ df1_filtered # Unbound
    /\ Cardinality(filter_values1) = 2
    /\ Len(df1_filtered.rows) = 2
    /\ Len(df1.rows) = 3
    /\ df1_filtered.rows[1] # df1_filtered.rows[2]

\* Table shownDf is table df restricted to the columns cols, row by row.
IsProjection(shownDf, df, cols) ==
    /\ shownDf.columns = cols
    /\ Len(shownDf.rows) = Len(df.rows)
    /\ \A i \in 1..Len(df.rows) :
          /\ DOMAIN shownDf.rows[i] = cols
          /\ \A c \in cols : shownDf.rows[i][c] = df.rows[i][c]

\* C2: a comparison of two filtered tables whose column sets intersect shows both
\* tables restricted to exactly the intersection of their column names, each with
\* its own rows, unmodified.
C2_SharedColumns ==
    (start_comparison /\ df1_filtered.columns \cap df2_filtered.columns # {}) =>
        LET both == df1_filtered.columns \cap df2_filtered.columns
        IN /\ Len(CompareShown) = 2
           /\ CompareShown[1].what = "compare1"
           /\ CompareShown[2].what = "compare2"
           /\ IsProjection(CompareShown[1].df, df1_filtered, both)
           /\ IsProjection(CompareShown[2].df, df2_filtered, both)

C2_Witness ==
    /\ start_comparison
    /\ df1_filtered.columns = {"A", "B", "C"}
    /\ df2_filtered.columns = {"B", "C", "D"}
    /\ Len(CompareShown) = 2
    /\ CompareShown[1].df.columns = {"B", "C"}
    /\ CompareShown[2].df.columns = {"B", "C"}
    /\ Len(df2_filtered.rows) = 2

\* C3: a comparison of two tables with disjoint column sets shows the warning and
\* neither table, raises nothing, and the run goes on to render its chart.
C3_DisjointWarns ==
    (start_comparison /\ df1_filtered.columns \cap df2_filtered.columns = {}) =>
        /\ Shows(NoCommonColumns)
        /\ CompareShown = <<>>
        /\ exception = "None"
        /\ pc \in {"chartselect", "render", "done"}
        /\ pc = "done" => Len(charts) = 1

C3_Witness ==
    /\ start_comparison
    /\ df1_filtered.columns \cap df2_filtered.columns = {}
    /\ pc = "done"
    /\ Len(charts) = 1

\* C4: a run with more than two uploaded files shows the warning and nothing
\* else: no file is parsed, no table is loaded, file_loaded keeps its value, and
\* no control, table or chart is produced.
C4_TooManyFiles ==
    (Len(files) > 2 /\ pc # "uploader") =>
        /\ \A i \in 1..Len(files) : parseCount[i] = 0
        /\ df1 = Unbound /\ df2 = Unbound
        /\ df1_filtered = Unbound /\ df2_filtered = Unbound
        /\ widgets = {} /\ shown = <<>> /\ charts = <<>>
        /\ pc \in {"main", "done"}
        /\ pc = "main" => messages = <<>>
        /\ pc = "done" => messages = << TooManyWarning >>
        /\ file_loaded = loaded_at_start

C4_Witness ==
    /\ Len(files) > 2
    /\ pc = "done"
    /\ file_loaded
    /\ loaded_at_start
    /\ messages = << TooManyWarning >>

\* C5: after a failed parse the run goes on without an uncaught error.
C5_NoCrashAfterParseFailure ==
    ParseFailed => exception = "None"

\* C6: at the end of a run in which a parse failed, file_loaded is false.
C6_FlagFalseAfterMalformed ==
    (pc = "done" /\ ParseFailed) => ~file_loaded

DispatchMatches(call) ==
    /\ call.renderer = Renderer(chart_type)
    /\ call.df = df1_filtered
    /\ Len(call.args) = (IF chart_type \in TwoColumnCharts THEN 2 ELSE 1)
    /\ call.args = (IF chart_type \in TwoColumnCharts THEN <<x_col, y_col>> ELSE <<col>>)
    /\ \A k \in 1..Len(call.args) : call.args[k] # UnboundName

\* C9, first part: a run that reaches chart dispatch calls exactly the renderer
\* of the selected kind, once, on columns assigned in that run.
C9_DispatchExact ==
    (pc = "done" /\ chart_type # UnboundName) =>
        /\ chart_type \in ChartTypes
        /\ Len(charts) = 1
        /\ DispatchMatches(charts[1])
        /\ exception = "None"

\* C9: a run that reaches chart dispatch calls exactly the renderer of the
\* selected kind, once, and no run ends with zero or several charts after a
\* successful load.
C9_ExactlyOneChart ==
    /\ C9_DispatchExact
    /\ Len(charts) <= 1
    /\ (pc = "done" /\ LoadSucceeded) => Len(charts) = 1

\* C10: every filter column is a column of the table it filters, and every chart
\* column is a column of the charted table, the filtered first table.
C10_ColumnsExist ==
    /\ filter_column1 # UnboundName =>
          (IsDataFrame(df1) /\ filter_column1 \in df1.columns
             /\ filter_column1 \in df1_filtered.columns)
    /\ filter_column2 # UnboundName =>
          (IsDataFrame(df2) /\ filter_column2 \in df2.columns
             /\ filter_column2 \in df2_filtered.columns)
    /\ \A c \in {x_col, y_col, col} \ {UnboundName} : c \in df1_filtered.columns
    /\ \A k \in 1..Len(charts) :
          /\ charts[k].df = df1_filtered
          /\ \A a \in 1..Len(charts[k].args) : charts[k].args[a] \in charts[k].df.columns

C10_Witness ==
    /\ columns_replaced
    /\ reruns >= 1
    /\ pc = "done"
    /\ Len(charts) = 1
    /\ Len(charts[1].args) = 2
    /\ filter_column2 # UnboundName

====
